---------------------------- MODULE Spec2Model ----------------------------
(***************************************************************************)
(* The task orchestration loop of Intentus: IntentusAgent.run with the     *)
(* Planner's response extraction and the Executor's dispatch.              *)
(*                                                                         *)
(* Texts (Python str) are sequences of tokens; a token is a word, " " or   *)
(* "\n".  The empty string is << >>.                                       *)
(***************************************************************************)
EXTENDS Integers, Sequences, FiniteSets, TLC

\* ------------------------------------------------------------------ bounds
MaxSteps == 2
MaxRuns == 2
MaxTrace == 3
MaxTime == 1
MaxRequests == 2
MaxLen == 3

\* ------------------------------------------------------------------- texts
EmptyStr == << >>
NoneVal == <<"<None>">>
NL == "\n"
SP == " "

IsSpace(tok) == tok = SP \/ tok = NL

RECURSIVE LStrip(_)
LStrip(s) ==
  IF s = << >> THEN << >>
  ELSE IF IsSpace(Head(s)) THEN LStrip(Tail(s)) ELSE s

RECURSIVE RStrip(_)
RStrip(s) ==
  IF s = << >> THEN << >>
  ELSE IF IsSpace(s[Len(s)]) THEN RStrip(SubSeq(s, 1, Len(s) - 1)) ELSE s

\* str.strip()
Strip(s) == RStrip(LStrip(s))

\* str.startswith(prefix)
StartsWith(s, prefix) ==
  /\ Len(s) >= Len(prefix)
  /\ SubSeq(s, 1, Len(prefix)) = prefix

\* str.replace(old, ""), old a non-empty text
RECURSIVE Remove(_, _)
Remove(s, old) ==
  IF s = << >> THEN << >>
  ELSE IF StartsWith(s, old) THEN Remove(SubSeq(s, Len(old) + 1, Len(s)), old)
  ELSE <<Head(s)>> \o Remove(Tail(s), old)

\* str.split("\n"): the list of lines, at least one
RECURSIVE SplitFrom(_, _)
SplitFrom(s, cur) ==
  IF s = << >> THEN <<cur>>
  ELSE IF Head(s) = NL THEN <<cur>> \o SplitFrom(Tail(s), << >>)
  ELSE SplitFrom(Tail(s), Append(cur, Head(s)))

SplitLines(s) == SplitFrom(s, << >>)

\* ------------------------------------------------- oracle response values
\* A Python dict with text values: a set of [key, val] entries.
Entry(k, v) == [key |-> k, val |-> v]

HasKey(d, k) == \E e \in d : e.key = k

\* dict.get(k, default)
Get(d, k, default) ==
  IF HasKey(d, k) THEN (CHOOSE e \in d : e.key = k).val ELSE default

\* A response of the engine: a dict, or a str that is JSON text of an object,
\* JSON text of another value, or text that is no JSON.  text is str(response).
DictResp(d) == [kind |-> "dict", form |-> "obj", data |-> d, text |-> <<"{dict}">>]
JsonResp(d) == [kind |-> "str", form |-> "obj", data |-> d, text |-> <<"{json}">>]
JsonOther == [kind |-> "str", form |-> "nonobj", data |-> {}, text |-> <<"[json]">>]
RawResp(t) == [kind |-> "str", form |-> "raw", data |-> {}, text |-> t]

\* An exception-or-value outcome of a call.
Ok(v) == [raised |-> FALSE, msg |-> EmptyStr, value |-> v]
Raise(m) == [raised |-> TRUE, msg |-> m, value |-> EmptyStr]

\* ---------------------------------------------------------------- engines
\* OpenAIEngine.__call__ / VLLMEngine.__call__: the content, or every failure
\* of the transport re-raised with the engine's prefix.  outcome is what the
\* service does: Ok(response) or Raise(cause text).
EngineCall(outcome) ==
  IF outcome.raised
  THEN Raise(<<"Error generating response from OpenAI: ">> \o outcome.msg)
  ELSE outcome

\* json.loads(str(response)) of a str response
JsonLoads(response) ==
  IF response.form = "raw" THEN Raise(<<"JSONDecodeError">>)
  ELSE Ok(response)

\* ---------------------------------------------------------------- planner
Triple(c, s, t) == [context |-> c, subgoal |-> s, tool |-> t]

ContextPrefix == <<"Context:">>
SubGoalPrefix == <<"Sub-Goal:">>
ToolPrefix == <<"Tool:">>
ToolNamePrefix == <<"Tool", SP, "Name:">>

\* One pass of the fallback loop body over a line.
ScanLine(acc, line) ==
  IF StartsWith(line, ContextPrefix)
    THEN [acc EXCEPT !.context = Strip(Remove(line, ContextPrefix))]
  ELSE IF StartsWith(line, SubGoalPrefix)
    THEN [acc EXCEPT !.subgoal = Strip(Remove(line, SubGoalPrefix))]
  ELSE IF StartsWith(line, ToolPrefix)
    THEN [acc EXCEPT !.tool = Strip(Remove(line, ToolPrefix))]
  ELSE IF StartsWith(line, ToolNamePrefix)
    THEN [acc EXCEPT !.tool = Strip(Remove(line, ToolNamePrefix))]
  ELSE acc

RECURSIVE ScanLines(_, _)
ScanLines(acc, lines) ==
  IF lines = << >> THEN acc
  ELSE ScanLines(ScanLine(acc, Head(lines)), Tail(lines))

\* Planner.extract_context_subgoal_and_tool
extract_context_subgoal_and_tool_no_defaults(response) ==
  IF response.kind = "dict" \/ (response.kind = "str" /\ response.form = "obj")
  THEN Triple(Get(response.data, "context", EmptyStr),
              Get(response.data, "sub_goal", EmptyStr),
              Get(response.data, "tool_name", EmptyStr))
  ELSE ScanLines(Triple(NoneVal, NoneVal, NoneVal), SplitLines(response.text))

extract_context_subgoal_and_tool_dict_only(response) ==
  IF response.kind = "dict"
  THEN Triple(Get(response.data, "context", EmptyStr),
              Get(response.data, "sub_goal", EmptyStr),
              Get(response.data, "tool_name", EmptyStr))
  ELSE ScanLines(Triple(EmptyStr, EmptyStr, EmptyStr), SplitLines(response.text))

extract_context_subgoal_and_tool(response) ==
  IF response.kind = "dict" \/ (response.kind = "str" /\ response.form = "obj")
  THEN Triple(Get(response.data, "context", EmptyStr),
              Get(response.data, "sub_goal", EmptyStr),
              Get(response.data, "tool_name", EmptyStr))
  ELSE ScanLines(Triple(EmptyStr, EmptyStr, EmptyStr), SplitLines(response.text))

AnalysisPrefix == <<"Analysis:">>
ConclusionPrefix == <<"Conclusion:">>
STOP == <<"STOP">>
CONTINUE == <<"CONTINUE">>

ScanVerdict_unstripped(acc, line) ==
  IF StartsWith(line, AnalysisPrefix)
    THEN [acc EXCEPT !.analysis = Strip(Remove(line, AnalysisPrefix))]
  ELSE IF StartsWith(line, ConclusionPrefix)
    THEN [acc EXCEPT !.conclusion = Remove(line, ConclusionPrefix)]
  ELSE acc

ScanVerdict(acc, line) ==
  IF StartsWith(line, AnalysisPrefix)
    THEN [acc EXCEPT !.analysis = Strip(Remove(line, AnalysisPrefix))]
  ELSE IF StartsWith(line, ConclusionPrefix)
    THEN [acc EXCEPT !.conclusion = Strip(Remove(line, ConclusionPrefix))]
  ELSE acc

RECURSIVE ScanVerdicts(_, _)
ScanVerdicts(acc, lines) ==
  IF lines = << >> THEN acc
  ELSE ScanVerdicts(ScanVerdict(acc, Head(lines)), Tail(lines))

\* Planner.extract_conclusion
extract_conclusion(response) ==
  ScanVerdicts([analysis |-> EmptyStr, conclusion |-> EmptyStr],
               SplitLines(response.text))

\* --------------------------------------------------------------- executor
\* The body of Executor.generate_tool_command after the oracle answered.
ParseToolCommand_dispatch_blank(response) ==
  IF response.kind = "dict"
  THEN Ok(Strip(Get(response.data, "command", EmptyStr)))
  ELSE IF JsonLoads(response).raised
       THEN Raise(<<"Invalid response format">>)
  ELSE IF response.form # "obj"
       THEN Raise(<<"'list' object has no attribute 'get'">>)
  ELSE Ok(Strip(Get(response.data, "command", EmptyStr)))

ParseToolCommand(response) ==
  IF response.kind = "dict"
  THEN LET command == Strip(Get(response.data, "command", EmptyStr))
       IN  IF command = EmptyStr THEN Raise(<<"Empty command generated">>)
           ELSE Ok(command)
  ELSE IF JsonLoads(response).raised
       THEN Raise(<<"Invalid response format">>)
  ELSE IF response.form # "obj"
       THEN Raise(<<"'list' object has no attribute 'get'">>)
  ELSE LET command == Strip(Get(response.data, "command", EmptyStr))
       IN  IF command = EmptyStr THEN Raise(<<"Empty command generated">>)
           ELSE Ok(command)

\* Executor.generate_tool_command: the metadata lookup, the oracle call and
\* the parse.  metadata is the key set of toolbox_metadata.
generate_tool_command(metadata, tool, outcome) ==
  IF tool \notin metadata THEN Raise(<<"'">> \o tool \o <<"'">>)
  ELSE IF EngineCall(outcome).raised THEN EngineCall(outcome)
  ELSE ParseToolCommand(EngineCall(outcome).value)

\* Executor.execute_tool_command: env is what import, instantiation and
\* tool.execute do: Ok(tool result) or Raise(cause text).
execute_tool_command_bare(env) == env

execute_tool_command(env) ==
  IF env.raised THEN Raise(<<"Error executing tool command: ">> \o env.msg)
  ELSE env

\* The dicts execute_step returns.
NoToolResult == [isNone |-> TRUE, success |-> FALSE, error |-> NoneVal]
ToolResult(ok, err) == [isNone |-> FALSE, success |-> ok, error |-> err]

NotAvailableResult(tool) ==
  [success |-> FALSE,
   error |-> <<"Tool '">> \o tool \o <<"' is not available">>,
   command |-> NoneVal, result |-> NoToolResult]
FailureResult(msg) ==
  [success |-> FALSE, error |-> msg, command |-> NoneVal, result |-> NoToolResult]
SuccessResult(command, res) ==
  [success |-> TRUE, error |-> NoneVal, command |-> command, result |-> res]

\* tool in self.available_tools (a list)
InList(x, list) == \E i \in 1..Len(list) : list[i] = x

\* ----------------------------------------------------------------- memory
Step(n, t, g, c, r) ==
  [step_count |-> n, tool_name |-> t, sub_goal |-> g, command |-> c, result |-> r]

\* Memory.add_action: append one Step to the ordered trace.
add_action(mem, n, t, g, c, r) == Append(mem, Step(n, t, g, c, r))

\* Memory.get_actions: the trace in insertion order.
get_actions(mem) == mem

\* ------------------------------------------- what the environment may do
ToolA == <<"ToolA">>
NoSuchTool == <<"NoSuchTool">>
Ctx == <<"c">>
Goal == <<"g">>

Decision(t) == {Entry("context", Ctx), Entry("sub_goal", Goal), Entry("tool_name", t)}

\* Answers of the oracle to generate_next_step.
NextStepResponses ==
  { DictResp(Decision(ToolA)),
    DictResp(Decision(NoSuchTool)),
    DictResp({Entry("context", Ctx), Entry("sub_goal", Goal)}),
    JsonResp(Decision(ToolA)),
    JsonOther,
    RawResp(<<"Context:", SP, "c", NL, "Sub-Goal:", SP, "g", NL,
              "Tool", SP, "Name:", SP, "ToolA">>),
    RawResp(<<"Context:", SP, "c", NL, "Sub-Goal:", SP, "g", NL,
              "Tool:", SP, "NoSuchTool", SP>>),
    RawResp(EmptyStr) }

\* Answers of the oracle to verificate_context.
VerifyResponses ==
  { RawResp(<<"Analysis:", SP, "a", NL, "Conclusion:", SP, "STOP">>),
    RawResp(<<"Analysis:", SP, "a", NL, "Conclusion:", SP, "CONTINUE">>),
    RawResp(<<"Analysis:", SP, "a">>),
    RawResp(<<SP, "Conclusion:", SP, "STOP">>),
    DictResp({Entry("analysis", <<"a">>), Entry("stop_signal", STOP)}),
    JsonResp({Entry("analysis", <<"a">>), Entry("stop_signal", STOP)}) }

\* Answers of the oracle to generate_tool_command.
CommandResponses ==
  { DictResp({Entry("analysis", <<"a">>), Entry("command", <<SP, "q", SP>>)}),
    DictResp({Entry("analysis", <<"a">>), Entry("command", <<SP, SP>>)}),
    DictResp({Entry("analysis", <<"a">>)}),
    JsonResp({Entry("analysis", <<"a">>), Entry("command", <<"q">>)}),
    JsonResp({Entry("analysis", <<"a">>), Entry("command", EmptyStr)}),
    JsonOther,
    RawResp(<<"q">>) }

\* Free-text answers (analyze_query, generate_base_response,
\* generate_final_output).
TextResponses == { RawResp(<<"text">>) }

\* The transport may fail instead of answering.
Outcomes(responses) == {Ok(r) : r \in responses} \cup {Raise(<<"timeout">>)}

\* What import, instantiation and execute of an available tool may do.  stage
\* tells whether tool.execute was reached.
ToolEnvs ==
  { [stage |-> "import", outcome |-> Raise(<<"No module named tool">>)],
    [stage |-> "execute", outcome |-> Raise(<<"boom">>)],
    [stage |-> "execute", outcome |-> Raise(EmptyStr)],
    [stage |-> "execute", outcome |-> Ok(ToolResult(TRUE, NoneVal))],
    [stage |-> "execute", outcome |-> Ok(ToolResult(FALSE, <<"No results found.">>))] }

\* The answers and tool behaviours drawn inside a whole run: those that make
\* the decisions and the Executor's results differ in kind (an available tool,
\* an unknown one, none; a command or a blank one; a tool that succeeds or
\* raises).  SpecExec draws from the full sets.
LoopNextStepResponses ==
  NextStepResponses \ {DictResp({Entry("context", Ctx), Entry("sub_goal", Goal)})}
LoopCommandOutcomes == {Ok(r) : r \in {c \in CommandResponses : c.form = "obj"}}
LoopToolEnvs ==
  {e \in ToolEnvs :
     IF e.outcome.raised THEN e.stage = "execute" /\ e.outcome.msg = EmptyStr
     ELSE e.outcome.value.success}

\* Registries an agent may have been constructed with.
Registries == { << >>, <<ToolA>> }

\* --------------------------------------------------------- initializer
\* str.lower(), token by token
LowerTok(tok) ==
  CASE tok = "Alpha" -> "alpha"
    [] tok = "Beta" -> "beta"
    [] tok = "_Tool" -> "_tool"
    [] OTHER -> tok

Lower(s) == [i \in 1..Len(s) |-> LowerTok(s[i])]

\* tool.lower().replace("_tool", "")
ToolDirName(name) == Remove(Lower(name), <<"_tool">>)

\* The candidates: the sub-directories of tools/ that hold a tool.py, and the
\* BaseTool subclass each tool.py defines.
ToolDirs == { <<"alpha">>, <<"beta">> }

ClassOf(dir) == IF dir = <<"alpha">> THEN <<"Alpha", "_Tool">> ELSE <<"Beta", "_Tool">>

\* What a candidate does: it works, its import raises, its constructor raises,
\* or its get_metadata raises.
Behaviours == {"ok", "import", "init", "metadata"}

All == <<"all">>

EnabledLists ==
  { << >>, <<ClassOf(<<"alpha">>)>>, <<ClassOf(<<"beta">>)>>,
    <<ClassOf(<<"alpha">>), ClassOf(<<"beta">>)>>, <<All>> }

\* The parameters of Initializer.__init__, and the calls that create one:
\* IntentusAgent.__init__, the module's __main__ block, and a caller that
\* names the engine.  llm_engine is "none" when the call leaves the default.
InitializerParams == {"enabled_tools", "llm_engine", "verbose", "vllm_config_path"}

AgentCall ==
  [kwargs |-> {"enabled_tools", "llm_engine", "verbose", "config_path"},
   llm_engine |-> "name"]

MainCall == [kwargs |-> {"enabled_tools"}, llm_engine |-> "none"]

DirectCall == [kwargs |-> {"enabled_tools", "llm_engine"}, llm_engine |-> "name"]

InitializerCalls == {AgentCall, MainCall, DirectCall}

\* A list of the elements of a set (dict keys in insertion order).
RECURSIVE ListOf(_)
ListOf(S) ==
  IF S = {} THEN << >>
  ELSE LET x == CHOOSE y \in S : TRUE IN <<x>> \o ListOf(S \ {x})

\* Initializer.load_tools_and_get_metadata: the dict it returns (key set).  A
\* candidate whose import, constructor or get_metadata raises is skipped.
load_tools_and_get_metadata(dirs) ==
  {ClassOf(d) : d \in {c \in DOMAIN dirs : dirs[c] = "ok"}}

\* Initializer.run_demo_commands: the names in metadata whose module imports
\* and whose class instantiates.
run_demo_commands(metadata, dirs) ==
  ListOf({t \in metadata :
            /\ ToolDirName(t) \in DOMAIN dirs
            /\ dirs[ToolDirName(t)] \notin {"import", "init"}
            /\ ClassOf(ToolDirName(t)) = t})

\* {tool: self.toolbox_metadata[tool] for tool in self.available_tools}
FilterMetadata(metadata, available) ==
  IF \A i \in 1..Len(available) : available[i] \in metadata
  THEN Ok({available[i] : i \in 1..Len(available)})
  ELSE Raise(<<"KeyError">>)

\* ------------------------------------------------------------------ state
VARIABLES
  max_steps,        \* AgentConfig.max_steps
  max_time,         \* PlannerConfig.max_time
  available_tools,  \* IntentusAgent.available_tools, shared with the Executor
  toolbox_metadata, \* key set of IntentusAgent.toolbox_metadata
  memory,           \* IntentusAgent.memory
  pc,               \* where run is: the call it is about to await
  elapsed,          \* time.time() - start_time
  step_count, context, subgoal, tool, command, result, conclusion,
  run_result,       \* the dict run returned
  runs,             \* runs started on this agent
  calls,            \* calls made by the current run, by callee
  stopped,          \* the current run's verify has concluded STOP
  all_available,    \* every decision of the current run chose an available tool
  mem_at_start,     \* len of the trace when the current run started
  exc,              \* the call that raised last: "command" or "tool" inside
                    \* execute_step, "oracle" for a planner call of run
  req,              \* the runs of the /orchestrate requests in flight
  owner,            \* for each Step of the trace, the request that appended it
  tool_dirs,        \* the tools directory: what each candidate's tool.py does
  enabled_tools,    \* Initializer.enabled_tools
  setup_pc,         \* where Initializer._set_up_tools is
  tools_metadata,   \* what load_tools_and_get_metadata returned (key set)
  verification,     \* a given answer of the oracle to verificate_context
  init_call,        \* the call that creates the Initializer: its keyword
                    \* arguments and the llm_engine it passes
  next_step,        \* a given answer of the oracle to generate_next_step
  response,         \* a given outcome of the oracle call of generate_tool_command
  outstanding,      \* the oracle and tool calls of the run started and not returned
  awaiting,         \* run is suspended in an await
  agent,            \* main.agent, the global: NoAgent or the instance cached
  expected_api_key, \* os.getenv("ORCHESTRATOR_API_KEY")
  http,             \* the /orchestrate requests: where each is, its
                    \* credentials, the agent it got, what was raised, its response
  constructed,      \* IntentusAgent instances constructed in this process
  attempts          \* calls of IntentusAgent(config) made by get_agent

vars == <<max_steps, max_time, available_tools, toolbox_metadata, memory, pc,
          elapsed, step_count, context, subgoal, tool, command, result,
          conclusion, run_result, runs, calls, stopped, all_available,
          mem_at_start, exc, req, owner, tool_dirs, enabled_tools, setup_pc,
          tools_metadata, verification, init_call, next_step, response,
          outstanding, awaiting, agent, expected_api_key, http, constructed,
          attempts>>

\* State of the service around one followed run.
inflight == <<req, owner>>

\* State of the registry build (Initializer).
setup == <<tool_dirs, enabled_tools, setup_pc, tools_metadata, init_call>>

\* The calls in flight, followed by SpecAwait only.
awaits == <<outstanding, awaiting>>

\* The request boundary (main.py), followed by SpecService only.
service == <<agent, expected_api_key, http, constructed, attempts>>

\* What a call of run reads and never assigns.
fixed == <<max_steps, max_time, available_tools, toolbox_metadata, inflight,
           setup, verification, next_step, response, service>>
config == <<fixed, awaits>>
locals == <<step_count, context, subgoal, tool, command, result, conclusion>>
ghosts == <<stopped, all_available, mem_at_start, exc>>
progress == <<stopped, all_available, mem_at_start>>

\* A planner call of run raised: nothing in run catches it.
Uncaught(o, e) == IF EngineCall(o).raised THEN "oracle" ELSE e

NoCalls ==
  [analyze_query |-> 0, generate_next_step |-> 0, execute_step |-> 0,
   dispatched |-> 0, command_oracle |-> 0, tool_execute |-> 0,
   add_action |-> 0, verificate_context |-> 0, generate_final_output |-> 0]

Called(f) == [calls EXCEPT ![f] = @ + 1]

NoResult == FailureResult(NoneVal)

Requests == 1..MaxRequests

\* The locals of one request's run, and what its planner prompts and its
\* response have shown of the trace.
NoRequest ==
  [pc |-> "idle", step_count |-> 0, context |-> EmptyStr, subgoal |-> EmptyStr,
   tool |-> EmptyStr, command |-> EmptyStr, result |-> NoResult,
   fresh |-> TRUE, seen |-> {}, returned |-> FALSE, steps_taken |-> 0,
   trace |-> << >>, trace_owners |-> {}]

NoRequests == [r \in Requests |-> NoRequest]
NotReturned ==
  [returned |-> FALSE, final_output |-> EmptyStr, steps_taken |-> 0, memory |-> << >>]

\* The request boundary before any request: no agent yet, no key configured.
NoAgent == 0

Unset == "<unset>"

NoHttp ==
  [pc |-> "idle", credentials |-> "", agent |-> NoAgent, raised |-> "none",
   cause |-> EmptyStr, status |-> 0, success |-> FALSE, error |-> NoneVal,
   detail |-> ""]

NoService ==
  /\ agent = NoAgent
  /\ expected_api_key = Unset
  /\ http = [r \in Requests |-> NoHttp]
  /\ constructed = 0
  /\ attempts = 0

\* No call has been started.
NoneOutstanding == outstanding = {} /\ awaiting = FALSE

\* No answer of the oracle is fixed beforehand.
NoneGiven ==
  /\ next_step = RawResp(EmptyStr)
  /\ response = Ok(RawResp(EmptyStr))

\* The registry build is over: the agent holds its result.
Built ==
  /\ tool_dirs = [d \in ToolDirs |-> "ok"]
  /\ enabled_tools = << >>
  /\ setup_pc = "built"
  /\ tools_metadata = {}
  /\ init_call = DirectCall

Init ==
  /\ max_steps \in 0..MaxSteps
  /\ max_time \in 0..MaxTime
  /\ available_tools \in Registries
  /\ toolbox_metadata = {available_tools[i] : i \in 1..Len(available_tools)}
  /\ memory = << >>
  /\ pc = "idle"
  /\ elapsed = 0
  /\ step_count = 0
  /\ context = EmptyStr /\ subgoal = EmptyStr /\ tool = EmptyStr
  /\ command = EmptyStr /\ result = NoResult /\ conclusion = EmptyStr
  /\ run_result = NotReturned
  /\ runs = 0
  /\ calls = NoCalls
  /\ stopped = FALSE /\ all_available = TRUE /\ mem_at_start = 0
  /\ exc = "none"
  /\ req = NoRequests /\ owner = << >>
  /\ NoneOutstanding
  /\ NoService
  /\ Built
  /\ verification = RawResp(EmptyStr)
  /\ NoneGiven

\* An awaited call takes some time.  The clock is followed up to max_time:
\* beyond it every reading compares the same with the budget.
Later(e) == {e} \cup {t \in {e + 1} : t <= max_time}

\* ---------------------------------------------------------- IntentusAgent.run
\* A call of run on the agent: start_time is taken, nothing else yet.  Runs
\* are followed while the trace has room for one more whole run.
Run ==
  /\ pc \in {"idle", "done", "aborted"}
  /\ runs < MaxRuns
  /\ Len(memory) + max_steps <= MaxTrace
  /\ runs' = runs + 1
  /\ pc' = "analyze_query"
  /\ elapsed' = 0
  /\ step_count' = 0
  /\ context' = EmptyStr /\ subgoal' = EmptyStr /\ tool' = EmptyStr
  /\ command' = EmptyStr /\ result' = NoResult /\ conclusion' = EmptyStr
  /\ run_result' = NotReturned
  /\ calls' = NoCalls
  /\ stopped' = FALSE /\ all_available' = TRUE /\ mem_at_start' = Len(memory)
  /\ exc' = "none"
  /\ UNCHANGED <<config, memory>>

\* query_analysis = await self.planner.analyze_query(question, image)
AnalyzeQuery ==
  /\ pc = "analyze_query"
  /\ \E o \in Outcomes(TextResponses), t \in Later(elapsed) :
       /\ elapsed' = t
       /\ pc' = IF EngineCall(o).raised THEN "aborted" ELSE "generate_base_response"
       /\ exc' = Uncaught(o, exc)
  /\ calls' = Called("analyze_query")
  /\ UNCHANGED <<config, memory, locals, run_result, runs, progress>>

\* base_response = await self.planner.generate_base_response(question, image)
\* step_count = 0
GenerateBaseResponse ==
  /\ pc = "generate_base_response"
  /\ \E o \in Outcomes(TextResponses), t \in Later(elapsed) :
       /\ elapsed' = t
       /\ pc' = IF EngineCall(o).raised THEN "aborted" ELSE "loop_guard"
       /\ exc' = Uncaught(o, exc)
  /\ step_count' = 0
  /\ UNCHANGED <<config, memory, context, subgoal, tool, command, result,
                 conclusion, run_result, runs, calls, progress>>

\* while step_count < self.config.max_steps:
LoopTest_inclusive(n, limit) == n <= limit

LoopTest_short(n, limit) == n + 1 < limit

LoopTest(n, limit) == n < limit

LoopGuard ==
  /\ pc = "loop_guard"
  /\ pc' = IF LoopTest(step_count, max_steps) THEN "generate_next_step"
           ELSE "generate_final_output"
  /\ UNCHANGED <<config, memory, elapsed, locals, run_result, runs, calls, ghosts>>

\* next_step = await self.planner.generate_next_step(...)
\* context, subgoal, tool = self.planner.extract_context_subgoal_and_tool(next_step)
GenerateNextStepWith(outcomes) ==
  /\ pc = "generate_next_step"
  /\ calls' = Called("generate_next_step")
  /\ \E o \in outcomes, t \in Later(elapsed) :
       /\ elapsed' = t
       /\ exc' = Uncaught(o, exc)
       /\ IF EngineCall(o).raised
          THEN /\ pc' = "aborted"
               /\ UNCHANGED <<context, subgoal, tool, all_available>>
          ELSE LET d == extract_context_subgoal_and_tool(EngineCall(o).value)
               IN  /\ context' = d.context
                   /\ subgoal' = d.subgoal
                   /\ tool' = d.tool
                   /\ all_available' =
                        (all_available /\ InList(d.tool, available_tools))
                   /\ pc' = "execute_step"
  /\ UNCHANGED <<config, memory, step_count, command, result, conclusion,
                 run_result, runs, stopped, mem_at_start>>

GenerateNextStep == GenerateNextStepWith(Outcomes(LoopNextStepResponses))

\* result = await self.executor.execute_step(...): the availability check
ToolAvailable_always(t, list) == TRUE

ToolAvailable(t, list) == InList(t, list)

ExecuteStep_registers ==
  /\ pc = "execute_step"
  /\ exc' = "none"
  /\ IF ~ToolAvailable(tool, available_tools)
     THEN /\ result' = NotAvailableResult(tool)
          /\ pc' = "add_action"
          /\ calls' = Called("execute_step")
          /\ available_tools' = Append(available_tools, tool)
     ELSE /\ pc' = "generate_tool_command"
          /\ calls' = [calls EXCEPT !.execute_step = @ + 1, !.dispatched = @ + 1]
          /\ UNCHANGED <<result, available_tools>>
  /\ UNCHANGED <<max_steps, max_time, toolbox_metadata, inflight, setup,
                 verification, next_step, response, awaits, service, memory,
                 elapsed,
                 step_count, context, subgoal, tool, command, conclusion,
                 run_result, runs, stopped, all_available, mem_at_start>>

ExecuteStep ==
  /\ pc = "execute_step"
  /\ exc' = "none"
  /\ IF ~ToolAvailable(tool, available_tools)
     THEN /\ result' = NotAvailableResult(tool)
          /\ pc' = "add_action"
          /\ calls' = Called("execute_step")
     ELSE /\ pc' = "generate_tool_command"
          /\ calls' = [calls EXCEPT !.execute_step = @ + 1, !.dispatched = @ + 1]
          /\ UNCHANGED result
  /\ UNCHANGED <<config, memory, elapsed, step_count, context, subgoal, tool,
                 command, conclusion, run_result, runs, stopped, all_available,
                 mem_at_start>>

\* execute_step: except Exception as e: return {"success": False, ...}
except_propagate(e) == [next |-> "aborted", result |-> NoResult]

except_Exception(e) == [next |-> "add_action", result |-> FailureResult(e.msg)]

\* execute_step: command = await self.generate_tool_command(...), and the
\* except clause when it raises
GenerateToolCommandWith(outcomes) ==
  /\ pc = "generate_tool_command"
  /\ calls' = IF tool \in toolbox_metadata THEN Called("command_oracle") ELSE calls
  /\ \E o \in outcomes, t \in Later(elapsed) :
       LET r == generate_tool_command(toolbox_metadata, tool, o)
       IN  /\ elapsed' = t
           /\ IF r.raised
              THEN /\ result' = except_Exception(r).result
                   /\ pc' = except_Exception(r).next
                   /\ exc' = "command"
                   /\ UNCHANGED command
              ELSE /\ command' = r.value
                   /\ pc' = "execute_tool_command"
                   /\ UNCHANGED <<result, exc>>
  /\ UNCHANGED <<config, memory, step_count, context, subgoal, tool, conclusion,
                 run_result, runs, stopped, all_available, mem_at_start>>

GenerateToolCommand == GenerateToolCommandWith(LoopCommandOutcomes)

\* execute_step: result = await self.execute_tool_command(tool, command), the
\* success return, and the except clause when it raises
StepResult(cmd, r) ==
  IF r.raised THEN except_Exception(r)
  ELSE [next |-> "add_action", result |-> SuccessResult(cmd, r.value)]

ExecuteToolCommandWith(envs) ==
  /\ pc = "execute_tool_command"
  /\ \E env \in envs, t \in Later(elapsed) :
       /\ elapsed' = t
       /\ calls' = IF env.stage = "execute" THEN Called("tool_execute") ELSE calls
       /\ result' = StepResult(command, execute_tool_command(env.outcome)).result
       /\ pc' = StepResult(command, execute_tool_command(env.outcome)).next
       /\ exc' = IF execute_tool_command(env.outcome).raised THEN "tool" ELSE "none"
  /\ UNCHANGED <<config, memory, step_count, context, subgoal, tool, command,
                 conclusion, run_result, runs, stopped, all_available,
                 mem_at_start>>

ExecuteToolCommand == ExecuteToolCommandWith(LoopToolEnvs)

\* self.memory.add_action(step_count=..., tool_name=tool, sub_goal=subgoal,
\*                        command=context, result=result)
AddAction_unavailable_skipped ==
  /\ pc = "add_action"
  /\ memory' = IF InList(tool, available_tools)
               THEN add_action(memory, step_count, tool, subgoal, context, result)
               ELSE memory
  /\ calls' = IF InList(tool, available_tools) THEN Called("add_action") ELSE calls
  /\ pc' = "verificate_context"
  /\ UNCHANGED <<config, elapsed, locals, run_result, runs, ghosts>>

AddAction_overwrite ==
  /\ pc = "add_action"
  /\ memory' = IF memory = << >>
               THEN add_action(memory, step_count, tool, subgoal, context, result)
               ELSE [memory EXCEPT ![Len(memory)] =
                       Step(step_count, tool, subgoal, context, result)]
  /\ calls' = Called("add_action")
  /\ pc' = "verificate_context"
  /\ UNCHANGED <<config, elapsed, locals, run_result, runs, ghosts>>

AddAction ==
  /\ pc = "add_action"
  /\ memory' = add_action(memory, step_count, tool, subgoal, context, result)
  /\ calls' = Called("add_action")
  /\ pc' = "verificate_context"
  /\ UNCHANGED <<config, elapsed, locals, run_result, runs, ghosts>>

\* verification = await self.planner.verificate_context(...)
\* analysis, conclusion = self.planner.extract_conclusion(verification)
\* if conclusion == "STOP": break
\* step_count += 1
IsStop(c) == c = STOP

\* break leaves the loop for Step 4; otherwise the guard is tested again
AfterVerify_return(stop) == IF stop THEN "done" ELSE "loop_guard"

AfterVerify_continue(stop) == "loop_guard"

AfterVerify_reverify(stop) ==
  IF stop THEN "generate_final_output" ELSE "verificate_context"

AfterVerify(stop) == IF stop THEN "generate_final_output" ELSE "loop_guard"

\* step_count += 1
NextStepCount_stuck(n) == n

NextStepCount(n) == n + 1

VerificateContextWith(outcomes) ==
  /\ pc = "verificate_context"
  /\ calls' = Called("verificate_context")
  /\ \E o \in outcomes, t \in Later(elapsed) :
       /\ elapsed' = t
       /\ exc' = Uncaught(o, exc)
       /\ IF EngineCall(o).raised
          THEN /\ pc' = "aborted"
               /\ UNCHANGED <<conclusion, step_count, stopped>>
          ELSE LET v == extract_conclusion(EngineCall(o).value)
               IN  /\ conclusion' = v.conclusion
                   /\ pc' = AfterVerify(IsStop(v.conclusion))
                   /\ IF IsStop(v.conclusion)
                      THEN /\ stopped' = TRUE
                           /\ UNCHANGED step_count
                      ELSE /\ step_count' = NextStepCount(step_count)
                           /\ UNCHANGED stopped
  /\ UNCHANGED <<config, memory, context, subgoal, tool, command, result,
                 run_result, runs, all_available, mem_at_start>>

VerificateContext == VerificateContextWith(Outcomes(VerifyResponses))

\* final_output = await self.planner.generate_final_output(...)
\* result = {..., "steps_taken": step_count + 1, "memory": self.memory.get_actions()}
\* return result
StepsTaken_plain(n) == n

StepsTaken(n) == n + 1

\* Planner.generate_final_output: the prompt holds memory.get_actions() as
\* text, whatever its length; the answer of the oracle is returned as it is.
generate_final_output_needs_steps(mem, outcome) ==
  IF get_actions(mem) = << >> THEN Raise(<<"list index out of range">>)
  ELSE EngineCall(outcome)

generate_final_output(mem, outcome) == EngineCall(outcome)

GenerateFinalOutput ==
  /\ pc = "generate_final_output"
  /\ calls' = Called("generate_final_output")
  /\ \E o \in Outcomes(TextResponses), t \in Later(elapsed) :
       /\ elapsed' = t
       /\ exc' = Uncaught(o, exc)
       /\ IF generate_final_output(memory, o).raised
          THEN /\ pc' = "aborted"
               /\ UNCHANGED run_result
          ELSE /\ pc' = "done"
               /\ run_result' = [returned |-> TRUE,
                                 final_output |->
                                   generate_final_output(memory, o).value.text,
                                 steps_taken |-> StepsTaken(step_count),
                                 memory |-> get_actions(memory)]
  /\ UNCHANGED <<config, memory, locals, runs, progress>>

Next ==
  \/ Run
  \/ AnalyzeQuery
  \/ GenerateBaseResponse
  \/ LoopGuard
  \/ GenerateNextStep
  \/ ExecuteStep
  \/ GenerateToolCommand
  \/ ExecuteToolCommand
  \/ AddAction
  \/ VerificateContext
  \/ GenerateFinalOutput

Spec == Init /\ [][Next]_vars

\* A run that has been started goes on: the event loop resumes the coroutine
\* whenever the call it awaits has returned or raised, and every call does.
RunStep ==
  \/ AnalyzeQuery
  \/ GenerateBaseResponse
  \/ LoopGuard
  \/ GenerateNextStep
  \/ ExecuteStep
  \/ GenerateToolCommand
  \/ ExecuteToolCommand
  \/ AddAction
  \/ VerificateContext
  \/ GenerateFinalOutput

\* Termination is followed on agents whose clock stands still (max_time = 0):
\* no step of run reads the clock, and with no time left only the step budget
\* can end the loop.
InitLive == Init /\ max_time = 0

LiveSpec == InitLive /\ [][Next]_vars /\ WF_vars(RunStep)

\* ------------------------------------------- Executor.execute_step alone
\* One call of execute_step in the first iteration of a run, for every
\* decision, every answer of the command oracle and every tool behaviour.
InitExec ==
  /\ max_steps \in 1..MaxSteps
  /\ max_time \in 0..MaxTime
  /\ available_tools \in Registries
  /\ toolbox_metadata = {available_tools[i] : i \in 1..Len(available_tools)}
  /\ memory = << >>
  /\ pc = "execute_step"
  /\ elapsed \in 0..max_time
  /\ step_count = 0
  /\ \E r \in NextStepResponses :
       LET d == extract_context_subgoal_and_tool(r)
       IN  context = d.context /\ subgoal = d.subgoal /\ tool = d.tool
  /\ command = EmptyStr /\ result = NoResult /\ conclusion = EmptyStr
  /\ run_result = NotReturned
  /\ runs = 1
  /\ calls = [NoCalls EXCEPT !.analyze_query = 1, !.generate_next_step = 1]
  /\ stopped = FALSE
  /\ all_available = InList(tool, available_tools)
  /\ mem_at_start = 0
  /\ exc = "none"
  /\ req = NoRequests /\ owner = << >>
  /\ NoneOutstanding
  /\ NoService
  /\ Built
  /\ verification = RawResp(EmptyStr)
  /\ next_step = RawResp(EmptyStr)
  /\ response \in Outcomes(CommandResponses)

GenerateToolCommandGiven == GenerateToolCommandWith({response})

ExecuteToolCommandAny == ExecuteToolCommandWith(ToolEnvs)

NextExec ==
  \/ ExecuteStep
  \/ GenerateToolCommandGiven
  \/ ExecuteToolCommandAny
  \/ AddAction

SpecExec == InitExec /\ [][NextExec]_vars

\* ----------------------------------- concurrent /orchestrate requests
\* main.orchestrate_intention is a coroutine of one event loop; every request
\* calls run on the one agent get_agent caches.  A request's run keeps its own
\* locals and gives up control only at an await; what it does between two
\* awaits is one step.  Memory, the registry and max_steps belong to the agent.
followed == <<pc, elapsed, step_count, context, subgoal, tool, command, result,
              conclusion, run_result, runs, calls, stopped, all_available,
              mem_at_start, exc>>

registry == <<max_steps, max_time, available_tools, toolbox_metadata, setup,
              verification, next_step, response, awaits, service>>

OwnersOf(o) == {o[i] : i \in 1..Len(o)}

InFlight == {r \in Requests : req[r].pc \notin {"idle", "done", "failed"}}

\* A planner prompt is built from memory.get_actions(): the run is shown the
\* Steps of the requests in o.
Shows(rec, o) == [rec EXCEPT !.seen = @ \cup OwnersOf(o)]

\* while step_count < self.config.max_steps, then the prompt of the next call
EnterLoop(rec, n, o) ==
  [Shows(rec, o) EXCEPT
     !.step_count = n,
     !.pc = IF LoopTest(n, max_steps) THEN "generate_next_step"
            ELSE "generate_final_output"]

\* execute_step has returned res: add_action, then the prompt of verify
Records(r, rec, res) ==
  /\ memory' = add_action(memory, rec.step_count, rec.tool, rec.subgoal,
                          rec.context, res)
  /\ owner' = Append(owner, r)
  /\ req' = [req EXCEPT ![r] =
               Shows([rec EXCEPT !.result = res, !.pc = "verificate_context"],
                     Append(owner, r))]

\* agent = get_agent(); result = await agent.run(question=question, image="")
OrchestrateIntention(r) ==
  /\ req[r].pc = "idle"
  /\ Len(memory) + (Cardinality(InFlight) + 1) * max_steps <= MaxTrace
  /\ req' = [req EXCEPT ![r].pc = "analyze_query", ![r].fresh = (memory = << >>)]
  /\ UNCHANGED <<registry, memory, owner, followed>>

ConcAnalyzeQuery(r) ==
  /\ req[r].pc = "analyze_query"
  /\ \E o \in Outcomes(TextResponses) :
       req' = [req EXCEPT ![r].pc = IF EngineCall(o).raised THEN "failed"
                                    ELSE "generate_base_response"]
  /\ UNCHANGED <<registry, memory, owner, followed>>

ConcGenerateBaseResponse(r) ==
  /\ req[r].pc = "generate_base_response"
  /\ \E o \in Outcomes(TextResponses) :
       req' = [req EXCEPT ![r] = IF EngineCall(o).raised
                                 THEN [req[r] EXCEPT !.pc = "failed"]
                                 ELSE EnterLoop(req[r], 0, owner)]
  /\ UNCHANGED <<registry, memory, owner, followed>>

\* generate_next_step answers; execute_step answers an unavailable tool at
\* once, and awaits the command oracle for an available one
ConcGenerateNextStep(r) ==
  /\ req[r].pc = "generate_next_step"
  /\ \E o \in Outcomes(LoopNextStepResponses) :
       IF EngineCall(o).raised
       THEN /\ req' = [req EXCEPT ![r].pc = "failed"]
            /\ UNCHANGED <<memory, owner>>
       ELSE LET d == extract_context_subgoal_and_tool(EngineCall(o).value)
                rec == [req[r] EXCEPT !.context = d.context,
                                      !.subgoal = d.subgoal, !.tool = d.tool]
            IN  IF ~ToolAvailable(d.tool, available_tools)
                THEN Records(r, rec, NotAvailableResult(d.tool))
                ELSE /\ req' = [req EXCEPT ![r] =
                                  [rec EXCEPT !.pc = "generate_tool_command"]]
                     /\ UNCHANGED <<memory, owner>>
  /\ UNCHANGED <<registry, followed>>

ConcGenerateToolCommand(r) ==
  /\ req[r].pc = "generate_tool_command"
  /\ \E o \in LoopCommandOutcomes :
       LET c == generate_tool_command(toolbox_metadata, req[r].tool, o)
       IN  IF c.raised
           THEN Records(r, req[r], except_Exception(c).result)
           ELSE /\ req' = [req EXCEPT ![r].command = c.value,
                                      ![r].pc = "execute_tool_command"]
                /\ UNCHANGED <<memory, owner>>
  /\ UNCHANGED <<registry, followed>>

ConcExecuteToolCommand(r) ==
  /\ req[r].pc = "execute_tool_command"
  /\ \E env \in LoopToolEnvs :
       Records(r, req[r],
               StepResult(req[r].command, execute_tool_command(env.outcome)).result)
  /\ UNCHANGED <<registry, followed>>

ConcVerificateContext(r) ==
  /\ req[r].pc = "verificate_context"
  /\ \E o \in Outcomes(VerifyResponses) :
       req' = [req EXCEPT ![r] =
                 IF EngineCall(o).raised THEN [req[r] EXCEPT !.pc = "failed"]
                 ELSE IF IsStop(extract_conclusion(EngineCall(o).value).conclusion)
                 THEN Shows([req[r] EXCEPT !.pc = AfterVerify(TRUE)], owner)
                 ELSE EnterLoop(req[r], req[r].step_count + 1, owner)]
  /\ UNCHANGED <<registry, memory, owner, followed>>

ConcGenerateFinalOutput(r) ==
  /\ req[r].pc = "generate_final_output"
  /\ \E o \in Outcomes(TextResponses) :
       req' = [req EXCEPT ![r] =
                 IF EngineCall(o).raised THEN [req[r] EXCEPT !.pc = "failed"]
                 ELSE [req[r] EXCEPT
                                !.pc = "done",
                                !.returned = TRUE,
                                !.steps_taken = StepsTaken(req[r].step_count),
                                !.trace = get_actions(memory),
                                !.trace_owners = OwnersOf(owner)]]
  /\ UNCHANGED <<registry, memory, owner, followed>>

NextConc ==
  \E r \in Requests :
    \/ OrchestrateIntention(r)
    \/ ConcAnalyzeQuery(r)
    \/ ConcGenerateBaseResponse(r)
    \/ ConcGenerateNextStep(r)
    \/ ConcGenerateToolCommand(r)
    \/ ConcExecuteToolCommand(r)
    \/ ConcVerificateContext(r)
    \/ ConcGenerateFinalOutput(r)

SpecConc == Init /\ [][NextConc]_vars

\* ------------------------------------ Initializer: the registry build
\* The creation of an Initializer, from the call to the end of __init__, for
\* every content of the tools directory and every enabled_tools list.
served == <<max_steps, max_time, memory, followed, inflight, verification,
           next_step, response, awaits, service>>

InitSetup ==
  /\ max_steps = MaxSteps
  /\ max_time = MaxTime
  /\ tool_dirs \in [ToolDirs -> Behaviours]
  /\ enabled_tools \in EnabledLists
  /\ init_call \in InitializerCalls
  /\ setup_pc = "call"
  /\ tools_metadata = {}
  /\ toolbox_metadata = {}
  /\ available_tools = << >>
  /\ memory = << >>
  /\ pc = "idle"
  /\ elapsed = 0
  /\ step_count = 0
  /\ context = EmptyStr /\ subgoal = EmptyStr /\ tool = EmptyStr
  /\ command = EmptyStr /\ result = NoResult /\ conclusion = EmptyStr
  /\ run_result = NotReturned
  /\ runs = 0
  /\ calls = NoCalls
  /\ stopped = FALSE /\ all_available = TRUE /\ mem_at_start = 0
  /\ exc = "none"
  /\ req = NoRequests /\ owner = << >>
  /\ NoneOutstanding
  /\ NoService
  /\ verification = RawResp(EmptyStr)
  /\ NoneGiven

given == <<tool_dirs, enabled_tools, init_call>>

\* Initializer(...): a keyword that is no parameter raises TypeError before
\* the body runs; the body starts with empty toolbox_metadata / available_tools
NewInitializer ==
  /\ setup_pc = "call"
  /\ setup_pc' = IF init_call.kwargs \subseteq InitializerParams THEN "start"
                 ELSE "TypeError"
  /\ toolbox_metadata' = {}
  /\ available_tools' = << >>
  /\ UNCHANGED <<served, given, tools_metadata>>

\* self.available_tools = [tool.lower().replace("_tool", "") for tool in
\*                         self.enabled_tools]
KeepEnabledTools ==
  /\ setup_pc = "start"
  /\ available_tools' =
       [i \in 1..Len(enabled_tools) |-> ToolDirName(enabled_tools[i])]
  /\ setup_pc' = "load"
  /\ UNCHANGED <<served, given, tools_metadata, toolbox_metadata>>

\* self.load_tools_and_get_metadata(): the dict it returns is not assigned
LoadToolsAndGetMetadata ==
  /\ setup_pc = "load"
  /\ tools_metadata' = load_tools_and_get_metadata(tool_dirs)
  /\ setup_pc' = "demo"
  /\ UNCHANGED <<served, given, available_tools, toolbox_metadata>>

\* self.run_demo_commands(), with its own filter of self.toolbox_metadata
RunDemoCommands ==
  /\ setup_pc = "demo"
  /\ LET available == run_demo_commands(toolbox_metadata, tool_dirs)
         kept == FilterMetadata(toolbox_metadata, available)
     IN  /\ available_tools' = available
         /\ IF kept.raised
            THEN setup_pc' = "failed" /\ UNCHANGED toolbox_metadata
            ELSE setup_pc' = "filter" /\ toolbox_metadata' = kept.value
  /\ UNCHANGED <<served, given, tools_metadata>>

\* self.toolbox_metadata = {tool: self.toolbox_metadata[tool]
\*                          for tool in self.available_tools}
FilterAvailable_reload ==
  /\ setup_pc = "filter"
  /\ setup_pc' = "vllm_check"
  /\ toolbox_metadata' = load_tools_and_get_metadata(tool_dirs)
  /\ UNCHANGED <<served, given, tools_metadata, available_tools>>

FilterAvailable ==
  /\ setup_pc = "filter"
  /\ LET kept == FilterMetadata(toolbox_metadata, available_tools)
     IN  IF kept.raised
         THEN setup_pc' = "failed" /\ UNCHANGED toolbox_metadata
         ELSE setup_pc' = "vllm_check" /\ toolbox_metadata' = kept.value
  /\ UNCHANGED <<served, given, tools_metadata, available_tools>>

\* if llm_engine.startswith("vllm-"): no engine name followed here starts
\* with it; the default None has no startswith
CheckEngine ==
  /\ setup_pc = "vllm_check"
  /\ setup_pc' = IF init_call.llm_engine = "none" THEN "AttributeError"
                 ELSE "built"
  /\ UNCHANGED <<served, given, tools_metadata, available_tools, toolbox_metadata>>

NextSetup ==
  \/ NewInitializer
  \/ KeepEnabledTools
  \/ LoadToolsAndGetMetadata
  \/ RunDemoCommands
  \/ FilterAvailable
  \/ CheckEngine

SpecSetup == InitSetup /\ [][NextSetup]_vars

\* --------------------------------- verification of one given answer
\* The verify call of a run's first iteration, for every answer of the oracle
\* out of a bounded set, and the rest of the run after it.
VerifyTokens == {"Analysis:", "Conclusion:", "STOP", "CONTINUE", SP, NL, "x"}

\* Every text of at most MaxLen tokens.
Texts(tokens) == UNION {[1..n -> tokens] : n \in 0..MaxLen}

\* The value the MemoryVerification schema asks for.
Verdict(signal) == {Entry("analysis", <<"a">>), Entry("stop_signal", signal)}

VerifyInputs ==
  {RawResp(t) : t \in Texts(VerifyTokens)}
    \cup VerifyResponses
    \cup {DictResp(Verdict(CONTINUE)), JsonResp(Verdict(CONTINUE))}

InitVerify ==
  /\ max_steps \in 1..MaxSteps
  /\ max_time = MaxTime
  /\ available_tools = << >>
  /\ toolbox_metadata = {}
  /\ pc = "verificate_context"
  /\ elapsed = 0
  /\ step_count = 0
  /\ context = Ctx /\ subgoal = Goal /\ tool = NoSuchTool
  /\ command = EmptyStr
  /\ result = NotAvailableResult(NoSuchTool)
  /\ memory = add_action(<< >>, 0, NoSuchTool, Goal, Ctx, result)
  /\ conclusion = EmptyStr
  /\ run_result = NotReturned
  /\ runs = 1
  /\ calls = [NoCalls EXCEPT !.analyze_query = 1, !.generate_next_step = 1,
                             !.execute_step = 1, !.add_action = 1]
  /\ stopped = FALSE /\ all_available = FALSE /\ mem_at_start = 0
  /\ exc = "none"
  /\ req = NoRequests /\ owner = << >>
  /\ NoneOutstanding
  /\ NoService
  /\ Built
  /\ verification \in VerifyInputs
  /\ NoneGiven

VerificateContextGiven == VerificateContextWith({Ok(verification)})

NextVerify ==
  \/ VerificateContextGiven
  \/ LoopGuard
  \/ GenerateFinalOutput

SpecVerify == InitVerify /\ [][NextVerify]_vars

\* --------------------------- SpecExtract: the decision of one given answer
\* run is about to call generate_next_step in its first iteration; the oracle
\* answers with a given response: any of NextStepResponses or any short text
\* over the field prefixes.
ExtractTokens ==
  {"Context:", "Sub-Goal:", "Sub-goal:", "Tool:", "Tool", "Name:", SP, NL, "x"}

ExtractInputs == NextStepResponses \cup {RawResp(t) : t \in Texts(ExtractTokens)}

InitExtract ==
  /\ max_steps \in 1..MaxSteps
  /\ max_time = MaxTime
  /\ available_tools = << >>
  /\ toolbox_metadata = {}
  /\ memory = << >>
  /\ pc = "generate_next_step"
  /\ elapsed = 0
  /\ step_count = 0
  /\ context = EmptyStr /\ subgoal = EmptyStr /\ tool = EmptyStr
  /\ command = EmptyStr /\ result = NoResult /\ conclusion = EmptyStr
  /\ run_result = NotReturned
  /\ runs = 1
  /\ calls = [NoCalls EXCEPT !.analyze_query = 1]
  /\ stopped = FALSE /\ all_available = TRUE /\ mem_at_start = 0
  /\ exc = "none"
  /\ req = NoRequests /\ owner = << >>
  /\ NoneOutstanding
  /\ NoService
  /\ Built
  /\ verification = RawResp(EmptyStr)
  /\ next_step \in ExtractInputs
  /\ response = Ok(RawResp(EmptyStr))

GenerateNextStepGiven == GenerateNextStepWith({Ok(next_step)})

NextExtract ==
  \/ GenerateNextStepGiven
  \/ ExecuteStep
  \/ AddAction

SpecExtract == InitExtract /\ [][NextExtract]_vars

\* ------------------------------------------------- SpecAwait: run's awaits
\* run as the event loop sees it: each `await` of an oracle call or of the
\* tool's execute starts the call and suspends run until the call returns or
\* raises.  What the calls answer is reduced to what run's control flow
\* depends on: raised or not, the tool decided, the verdict.
AwaitPoints ==
  {"analyze_query", "generate_base_response", "generate_next_step",
   "generate_tool_command", "execute_tool_command", "verificate_context",
   "generate_final_output"}

\* The call run is at: which await, in which iteration.
CallAt == [at |-> pc, step |-> step_count]

\* asyncio.create_task(f(...)) in place of await f(...): run goes on
await_create_task(p) ==
  [awaiting |-> FALSE,
   pc |-> CASE p = "analyze_query" -> "generate_base_response"
            [] p = "generate_base_response" -> "loop_guard"
            [] p = "generate_next_step" -> "execute_step"
            [] p = "generate_tool_command" -> "execute_tool_command"
            [] p = "execute_tool_command" -> "add_action"
            [] p = "verificate_context" -> "loop_guard"
            [] OTHER -> "done"]

\* await f(...): run stays at the call, suspended
await(p) == [awaiting |-> TRUE, pc |-> p]

StartCall ==
  /\ pc \in AwaitPoints
  /\ ~awaiting
  /\ outstanding' = outstanding \cup {CallAt}
  /\ awaiting' = await(pc).awaiting
  /\ pc' = await(pc).pc
  /\ UNCHANGED <<fixed, memory, elapsed, locals, run_result, runs, calls, ghosts>>

\* The awaited call returns or raises and run resumes after it: a planner
\* call that raises ends run, a call inside execute_step that raises makes
\* the failure result.
ReturnCall ==
  /\ awaiting
  /\ CallAt \in outstanding
  /\ awaiting' = FALSE
  /\ outstanding' = outstanding \ {CallAt}
  /\ \E raised \in BOOLEAN, t \in {ToolA, NoSuchTool}, stop \in BOOLEAN :
       CASE pc \in {"analyze_query", "generate_base_response",
                    "generate_final_output"} ->
              /\ pc' = IF raised THEN "aborted"
                       ELSE IF pc = "analyze_query" THEN "generate_base_response"
                       ELSE IF pc = "generate_base_response" THEN "loop_guard"
                       ELSE "done"
              /\ UNCHANGED <<step_count, tool, result, stopped, all_available>>
         [] pc = "generate_next_step" ->
              /\ pc' = IF raised THEN "aborted" ELSE "execute_step"
              /\ tool' = IF raised THEN tool ELSE t
              /\ all_available' =
                   IF raised THEN all_available
                   ELSE all_available /\ InList(t, available_tools)
              /\ UNCHANGED <<step_count, result, stopped>>
         [] pc = "generate_tool_command" ->
              /\ pc' = IF raised THEN except_Exception(Raise(<<"boom">>)).next
                       ELSE "execute_tool_command"
              /\ result' = IF raised THEN except_Exception(Raise(<<"boom">>)).result
                           ELSE result
              /\ UNCHANGED <<step_count, tool, stopped, all_available>>
         [] pc = "execute_tool_command" ->
              LET env == IF raised THEN Raise(<<"boom">>)
                         ELSE Ok(ToolResult(TRUE, NoneVal))
              IN  /\ pc' = StepResult(command, execute_tool_command(env)).next
                  /\ result' = StepResult(command, execute_tool_command(env)).result
                  /\ UNCHANGED <<step_count, tool, stopped, all_available>>
         [] pc = "verificate_context" ->
              /\ pc' = IF raised THEN "aborted" ELSE AfterVerify(stop)
              /\ stopped' = (stopped \/ (~raised /\ stop))
              /\ step_count' = IF raised \/ stop THEN step_count
                               ELSE NextStepCount(step_count)
              /\ UNCHANGED <<tool, result, all_available>>
  /\ UNCHANGED <<fixed, memory, elapsed, context, subgoal, command, conclusion,
                 run_result, runs, calls, mem_at_start, exc>>

NextAwait ==
  \/ Run
  \/ StartCall
  \/ ReturnCall
  \/ LoopGuard
  \/ ExecuteStep
  \/ AddAction

SpecAwait == Init /\ [][NextAwait]_vars

\* ------------------------------------- SpecService: the request boundary
\* main.py: each POST /orchestrate that carries a bearer credential goes
\* through verify_api_key, then the handler: get_agent, await agent.run, the
\* AgentResponse.  Requests are coroutines of one event loop: a request gives
\* up control only while it awaits run.
ApiKeys == {Unset, "", "k1"}

Credentials == {"k1", "k2"}

\* What IntentusAgent(config) does: create_llm_engine raises when the engine's
\* API key is missing, the Initializer call raises TypeError for its
\* config_path keyword; an instance comes out when neither happens.
ConstructionOutcomes ==
  { Raise(<<"OPENAI_API_KEY environment variable is not set">>),
    Raise(<<"__init__() got an unexpected keyword argument 'config_path'">>),
    Ok(<<"IntentusAgent">>) }

\* What await agent.run(...) does: it returns its result dict, or an oracle
\* call of the planner raised.
RunOutcomes ==
  { Ok([returned |-> TRUE, final_output |-> <<"text">>, steps_taken |-> 1,
        memory |-> << >>]),
    EngineCall(Raise(<<"timeout">>)) }

\* verify_api_key
verify_api_key_open(expected, credentials) == Ok(TRUE)

verify_api_key(expected, credentials) ==
  IF expected = Unset \/ expected = "" THEN Ok(TRUE)
  ELSE IF credentials # expected THEN Raise(<<"Invalid API key">>)
  ELSE Ok(TRUE)

\* get_agent: a is the global, o what the constructor does if it is called,
\* fresh the instance it makes.  global is the global afterwards, returned is
\* what the caller gets.
get_agent_uncached(a, o, fresh) ==
  [constructs |-> TRUE,
   global |-> IF o.raised THEN a ELSE fresh,
   returned |-> IF o.raised THEN o ELSE Ok(fresh)]

get_agent(a, o, fresh) ==
  IF a = NoAgent
  THEN [constructs |-> TRUE,
        global |-> IF o.raised THEN NoAgent ELSE fresh,
        returned |-> IF o.raised THEN o ELSE Ok(fresh)]
  ELSE [constructs |-> FALSE, global |-> a, returned |-> Ok(a)]

\* except Exception as e: return AgentResponse(success=False, error=str(e))
orchestrate_except_raise(e) ==
  [status |-> 500, success |-> FALSE, error |-> NoneVal]

orchestrate_except(e) == [status |-> 200, success |-> FALSE, error |-> e.msg]

\* What the service leaves alone.
behind == <<max_steps, max_time, available_tools, toolbox_metadata, inflight,
            setup, verification, next_step, response, awaits, memory, followed>>

InitService ==
  /\ max_steps = MaxSteps
  /\ max_time = MaxTime
  /\ available_tools = << >>
  /\ toolbox_metadata = {}
  /\ memory = << >>
  /\ pc = "idle"
  /\ elapsed = 0
  /\ step_count = 0
  /\ context = EmptyStr /\ subgoal = EmptyStr /\ tool = EmptyStr
  /\ command = EmptyStr /\ result = NoResult /\ conclusion = EmptyStr
  /\ run_result = NotReturned
  /\ runs = 0
  /\ calls = NoCalls
  /\ stopped = FALSE /\ all_available = TRUE /\ mem_at_start = 0
  /\ exc = "none"
  /\ req = NoRequests /\ owner = << >>
  /\ NoneOutstanding
  /\ Built
  /\ verification = RawResp(EmptyStr)
  /\ NoneGiven
  /\ agent = NoAgent
  /\ expected_api_key \in ApiKeys
  /\ http = [r \in Requests |-> NoHttp]
  /\ constructed = 0
  /\ attempts = 0

\* A request arrives with its Authorization: Bearer header.
Receive(r) ==
  /\ http[r].pc = "idle"
  /\ \E c \in Credentials :
       http' = [http EXCEPT ![r].pc = "verify_api_key", ![r].credentials = c]
  /\ UNCHANGED <<behind, agent, expected_api_key, constructed, attempts>>

\* Depends(verify_api_key): HTTPException(401) ends the request before the
\* handler's body
VerifyApiKey(r) ==
  /\ http[r].pc = "verify_api_key"
  /\ LET v == verify_api_key(expected_api_key, http[r].credentials)
     IN  http' = IF v.raised
                 THEN [http EXCEPT ![r].pc = "rejected", ![r].status = 401,
                                   ![r].detail = "Invalid API key"]
                 ELSE [http EXCEPT ![r].pc = "get_agent"]
  /\ UNCHANGED <<behind, agent, expected_api_key, constructed, attempts>>

\* agent = get_agent(), inside the handler's try
GetAgent(r) ==
  /\ http[r].pc = "get_agent"
  /\ \E o \in ConstructionOutcomes :
       LET g == get_agent(agent, o, constructed + 1)
       IN  /\ agent' = g.global
           /\ attempts' = IF g.constructs THEN attempts + 1 ELSE attempts
           /\ constructed' = IF g.constructs /\ ~g.returned.raised
                             THEN constructed + 1 ELSE constructed
           /\ http' =
                IF g.returned.raised
                THEN [http EXCEPT
                        ![r].pc = "responded",
                        ![r].raised = "construction",
                        ![r].cause = g.returned.msg,
                        ![r].status = orchestrate_except(g.returned).status,
                        ![r].success = orchestrate_except(g.returned).success,
                        ![r].error = orchestrate_except(g.returned).error]
                ELSE [http EXCEPT ![r].pc = "run",
                                  ![r].agent = g.returned.value]
  /\ UNCHANGED <<behind, expected_api_key>>

\* result = await agent.run(question=question, image=""): the call
AgentRun(r) ==
  /\ http[r].pc = "run"
  /\ http' = [http EXCEPT ![r].pc = "running"]
  /\ UNCHANGED <<behind, agent, expected_api_key, constructed, attempts>>

\* run returns: AgentResponse(success=True, ...); run raises: the except clause
RunReturns(r) ==
  /\ http[r].pc = "running"
  /\ \E o \in RunOutcomes :
       http' =
         IF o.raised
         THEN [http EXCEPT ![r].pc = "responded",
                           ![r].raised = "run",
                           ![r].cause = o.msg,
                           ![r].status = orchestrate_except(o).status,
                           ![r].success = orchestrate_except(o).success,
                           ![r].error = orchestrate_except(o).error]
         ELSE [http EXCEPT ![r].pc = "responded", ![r].status = 200,
                           ![r].success = TRUE]
  /\ UNCHANGED <<behind, agent, expected_api_key, constructed, attempts>>

NextService ==
  \E r \in Requests :
    \/ Receive(r)
    \/ VerifyApiKey(r)
    \/ GetAgent(r)
    \/ AgentRun(r)
    \/ RunReturns(r)

SpecService == InitService /\ [][NextService]_vars

\* ------------------------------------------------------------ properties
\* Steps the current run has appended to the trace.
Recorded == Len(memory) - mem_at_start

LastStep == memory[Len(memory)]

NonEmptyText(t) == t # EmptyStr /\ t # NoneVal

\* C1: for every max_steps = N >= 0, whatever the oracle and the tools do, one
\* call of run makes at most N calls of Executor.execute_step.
C1_ExecuteAtMostMaxSteps == calls.execute_step <= max_steps

C1_Witness ==
  /\ pc = "done"
  /\ max_steps = MaxSteps
  /\ calls.execute_step = max_steps
  /\ calls.dispatched = max_steps

\* C2: a run that returns has called generate_final_output exactly once, after
\* the loop ended (by STOP or by the step budget) and as its last call, and
\* returns the trace accumulated in Memory together with the final answer.
C2_FinalizeOnce ==
  /\ calls.generate_final_output <= 1
  /\ pc = "generate_final_output" =>
       /\ calls.generate_final_output = 0
       /\ stopped \/ ~(step_count < max_steps)
  /\ calls.generate_final_output = 1 => pc \in {"done", "aborted"}
  /\ pc = "done" =>
       /\ calls.generate_final_output = 1
       /\ run_result.returned
       /\ run_result.memory = memory
       /\ run_result.final_output = <<"text">>

C2_Witness ==
  /\ pc = "done"
  /\ ~stopped
  /\ step_count = max_steps
  /\ max_steps = MaxSteps
  /\ calls.generate_final_output = 1
  /\ Len(run_result.memory) >= MaxSteps

\* C3: once verify has concluded STOP, the run makes no further
\* generate_next_step, execute_step or verify call; the only call it still
\* makes is generate_final_output.
C3_StopHalts ==
  [][(stopped /\ stopped') =>
       /\ calls'.generate_next_step = calls.generate_next_step
       /\ calls'.execute_step = calls.execute_step
       /\ calls'.verificate_context = calls.verificate_context
       /\ calls'.add_action = calls.add_action
       /\ calls' # calls => /\ pc = "generate_final_output"
                            /\ calls' = Called("generate_final_output")]_vars

C3_Witness ==
  /\ pc = "done"
  /\ stopped
  /\ calls.verificate_context = 1
  /\ max_steps = MaxSteps
  /\ calls.generate_next_step = 1
  /\ calls.generate_final_output = 1

\* C4: the loop guard is tested before every iteration and includes the time
\* budget: no generate_next_step call starts once elapsed >= max_time, and with
\* max_time = 0 the run makes no iteration (finalize then sees an empty trace
\* of this run).
C4_TimeBudgetGuard ==
  /\ pc = "generate_next_step" => elapsed < max_time
  /\ max_time = 0 => calls.generate_next_step = 0 /\ Recorded = 0

C6_UnavailableNeverDispatched ==
  [][/\ (pc = "execute_step" /\ ~InList(tool, available_tools)) =>
          /\ pc' = "add_action"
          /\ ~result'.success
          /\ NonEmptyText(result'.error)
          /\ calls'.command_oracle = calls.command_oracle
          /\ calls'.tool_execute = calls.tool_execute
          /\ calls'.dispatched = calls.dispatched
     /\ pc' \in {"generate_tool_command", "execute_tool_command"} =>
          InList(tool', available_tools')]_vars

C6_Witness ==
  /\ pc = "add_action"
  /\ tool = NoSuchTool
  /\ available_tools = <<ToolA>>
  /\ result = NotAvailableResult(NoSuchTool)
  /\ calls.command_oracle = 0
  /\ calls.tool_execute = 0

\* C7: execute_step never raises: when command generation, the tool's import
\* or instantiation, or the tool's execute raises, execute_step returns a
\* result with success = false and a non-empty error text.
C7_ExecutorNeverRaises ==
  /\ pc # "aborted"
  /\ (pc = "add_action" /\ exc # "none") =>
       /\ ~result.success
       /\ NonEmptyText(result.error)

C7_Witness ==
  /\ pc = "add_action"
  /\ exc = "tool"
  /\ calls.tool_execute = 1
  /\ result = FailureResult(<<"Error executing tool command: ">>)

\* C8: a failed execution does not end the loop: when execute_step returns a
\* failure for a dispatched tool, the iteration appends that one Step, with
\* success = false, to the trace and goes on to call verify; nothing inside
\* execute_step aborts the run.
C8_FailureIsRecorded ==
  [][/\ (pc = "add_action" /\ InList(tool, available_tools) /\ ~result.success) =>
          /\ pc' = "verificate_context"
          /\ Len(memory') = Len(memory) + 1
          /\ SubSeq(memory', 1, Len(memory)) = memory
          /\ memory'[Len(memory')].tool_name = tool
          /\ memory'[Len(memory')].step_count = step_count
          /\ memory'[Len(memory')].result = result
          /\ ~memory'[Len(memory')].result.success
     /\ pc \in {"execute_step", "generate_tool_command", "execute_tool_command"} =>
          pc' \in {"generate_tool_command", "execute_tool_command", "add_action"}
     /\ (pc = "verificate_context" /\ calls' # calls) =>
          calls' = Called("verificate_context")]_vars

C8_Witness ==
  /\ pc = "loop_guard"
  /\ tool = ToolA
  /\ exc = "tool"
  /\ ~result.success
  /\ LastStep.result = result
  /\ LastStep.tool_name = ToolA
  /\ Recorded = 1
  /\ calls.verificate_context = 1

C10_BudgetExhaustion ==
  (pc \in {"generate_final_output", "done"} /\ all_available /\ ~stopped) =>
    /\ Recorded = max_steps
    /\ calls.add_action = max_steps
    /\ calls.verificate_context = max_steps
    /\ step_count = max_steps
    /\ conclusion # STOP

C10_Witness ==
  /\ pc = "done"
  /\ all_available
  /\ ~stopped
  /\ max_steps = MaxSteps
  /\ Recorded = MaxSteps
  /\ conclusion = CONTINUE

\* C11: on every exit path (STOP, step budget used up, zero-iteration run) the
\* steps_taken a run returns is the number of loop iterations it executed,
\* which is the number of Steps it appended to the trace.
C11_StepsTakenIsIterations ==
  pc = "done" =>
    /\ run_result.steps_taken = calls.generate_next_step
    /\ run_result.steps_taken = Recorded

\* C12: Memory is append-only and order-preserving: the trace only changes by
\* add_action putting the iteration's Step after all earlier ones; no earlier
\* Step is removed, overwritten or moved, and the trace a run returns is the
\* trace in that order.
C12_AppendOnly ==
  [][/\ Len(memory') >= Len(memory)
     /\ SubSeq(memory', 1, Len(memory)) = memory
     /\ memory' # memory =>
          /\ pc = "add_action"
          /\ memory' = Append(memory, Step(step_count, tool, subgoal, context, result))
          /\ get_actions(memory') = memory'
     /\ (run_result'.returned /\ ~run_result.returned) =>
          run_result'.memory = memory]_vars

C12_Witness ==
  /\ pc = "done"
  /\ Len(memory) = 2
  /\ Recorded = 2
  /\ memory[1].step_count = 0 /\ memory[1].tool_name = ToolA
  /\ memory[2].step_count = 1 /\ memory[2].tool_name = NoSuchTool
  /\ run_result.memory = memory

\* C13: Memory's lifetime is one task run: every run on an agent starts with
\* an empty Memory, and the trace a run returns holds only the Steps recorded
\* during that run, so at most max_steps of them.
C13_RunOwnsItsTrace ==
  /\ pc = "analyze_query" => memory = << >>
  /\ pc = "done" =>
       /\ Len(run_result.memory) = Recorded
       /\ Len(run_result.memory) <= max_steps

\* C14: concurrent task runs are independent: for a run that started on an
\* empty Memory, whatever other requests are in flight and however they
\* interleave at the awaits, no planner prompt of the run and no trace it
\* returns holds a Step recorded by another request.
C14_ConcurrentRunsIndependent ==
  \A r \in Requests :
    req[r].fresh =>
      /\ req[r].seen \subseteq {r}
      /\ req[r].returned => req[r].trace_owners \subseteq {r}

\* Registry-build helpers: the candidate works, and its name was requested.
Valid(d) == tool_dirs[d] = "ok"

Requested(name) == InList(name, enabled_tools) \/ InList(All, enabled_tools)

\* C15: the registry build tolerates a failing candidate: it does not abort,
\* and when a candidate fails to import, instantiate or yield metadata, every
\* other valid and enabled candidate is in the final available list and in the
\* final metadata map.
C15_BuildToleratesBrokenCandidate ==
  /\ setup_pc # "failed"
  /\ (setup_pc = "built" /\ \E b \in ToolDirs : ~Valid(b)) =>
       \A d \in ToolDirs :
         (Valid(d) /\ Requested(ClassOf(d))) =>
           /\ InList(ClassOf(d), available_tools)
           /\ ClassOf(d) \in toolbox_metadata

\* The lines of a text that start with the literal "Conclusion:".
ConclusionLines(lines) ==
  {i \in 1..Len(lines) : StartsWith(lines[i], ConclusionPrefix)}

\* The rest of the last such line, trimmed; the empty text when there is none.
LastConclusion(text) ==
  LET lines == SplitLines(text)
      found == ConclusionLines(lines)
  IN  IF found = {} THEN EmptyStr
      ELSE Strip(Remove(lines[CHOOSE i \in found : \A j \in found : j <= i],
                        ConclusionPrefix))

HasToken(text, tok) == \E i \in 1..Len(text) : text[i] = tok

Verified == calls.verificate_context = 1

\* C16 as stated: the conclusion extracted from any verification response is
\* CONTINUE or STOP, and it is CONTINUE when the response holds no STOP and no
\* CONTINUE token.
C16_ConclusionIsVerdict ==
  Verified =>
    /\ conclusion \in {CONTINUE, STOP}
    /\ (~HasToken(verification.text, "STOP")
          /\ ~HasToken(verification.text, "CONTINUE")) => conclusion = CONTINUE

\* C16 amended: the conclusion extracted is a free text, not one of two
\* values: the rest (literal removed, trimmed) of the last line of
\* str(response) that starts with "Conclusion:", and the empty text when no
\* line does.  The loop stops exactly when that text is STOP; the empty text,
\* CONTINUE and every other text continue and use up one step.
C16_ConclusionIsLastLine ==
  Verified =>
    /\ conclusion = LastConclusion(verification.text)
    /\ ConclusionLines(SplitLines(verification.text)) = {} => conclusion = EmptyStr
    /\ stopped <=> conclusion = STOP
    /\ stopped => step_count = 0 /\ pc \in {"generate_final_output", "done", "aborted"}
    /\ ~stopped => step_count = 1 /\ calls.generate_final_output <= 1

C16_Witness ==
  /\ Verified
  /\ verification = RawResp(<<"Analysis:", SP, "x">>)
  /\ conclusion = EmptyStr
  /\ ~stopped
  /\ pc = "loop_guard"
  /\ step_count = 1

\* C17: verification works for both oracle output shapes: a structured
\* verification value (a dict, or JSON text of the MemoryVerification schema)
\* whose stop_signal is STOP gives the conclusion STOP and ends the loop after
\* that iteration, exactly as the raw text "Conclusion: STOP" does.
C17_StructuredStopHalts ==
  (Verified /\ verification \in {DictResp(Verdict(STOP)), JsonResp(Verdict(STOP)),
                                 RawResp(<<"Conclusion:", SP, "STOP">>)}) =>
    /\ conclusion = STOP
    /\ stopped
    /\ step_count = 0
    /\ pc \in {"generate_final_output", "done", "aborted"}

Running == pc \notin {"idle", "done", "aborted"}

\* C18: every run terminates when each oracle and tool call returns or raises:
\* a started run reaches its return (or is ended by an oracle call that
\* raised), because every iteration that does not stop, an iteration with an
\* invalid tool included, goes through verify and uses up one unit of the
\* step budget, and no iteration starts once the budget is used up.
C18_RunTerminates ==
  /\ Running ~> (pc = "done" \/ (pc = "aborted" /\ exc = "oracle"))
  /\ [][/\ (pc = "verificate_context" /\ pc' = "loop_guard") =>
             step_count' = step_count + 1
        /\ (pc = "execute_step" /\ ~InList(tool, available_tools)) =>
             pc' = "add_action"
        /\ pc' = "generate_next_step" => step_count' < max_steps
        /\ (Running /\ Running') => step_count' >= step_count]_vars

C18_Witness ==
  /\ pc = "done"
  /\ ~stopped
  /\ ~all_available
  /\ max_steps = MaxSteps
  /\ step_count = MaxSteps
  /\ calls.dispatched = 0
  /\ calls.verificate_context = MaxSteps

\* C19: a zero-iteration run (the loop guard is false when first tested:
\* max_steps = 0) still calls generate_final_output, with an empty Memory;
\* finalize does not raise on the empty trace (the run is ended by an
\* exception only if the oracle itself raised), and the result it returns has
\* an empty trace.
C19_ZeroIterationRun ==
  (max_steps = 0 /\ runs >= 1) =>
    /\ calls.generate_next_step = 0
    /\ calls.execute_step = 0
    /\ calls.add_action = 0
    /\ memory = << >>
    /\ pc = "done" =>
         /\ calls.generate_final_output = 1
         /\ run_result.returned
         /\ run_result.final_output = <<"text">>
         /\ run_result.memory = << >>
    /\ pc = "aborted" => exc = "oracle"

C19_Witness ==
  /\ max_steps = 0
  /\ runs = 2
  /\ pc = "done"
  /\ calls.generate_final_output = 1
  /\ calls.generate_next_step = 0
  /\ run_result.returned
  /\ run_result.memory = << >>

\* ------------------------------------------- main.orchestrate_intention
\* The cause text of the exception that ended a run.
FatalCause == EngineCall(Raise(<<"timeout">>)).msg

\* The AgentResponse the handler returns: the fields of the result when run
\* returned, success = False and error = str(e) when it raised (memory is then
\* left at its default None: has_memory is FALSE).
AgentResponse(p, res, cause) ==
  IF p = "done"
  THEN [success |-> TRUE, error |-> NoneVal, has_memory |-> TRUE,
        memory |-> res.memory]
  ELSE [success |-> FALSE, error |-> cause, has_memory |-> FALSE,
        memory |-> << >>]

\* logger.error(f"Error processing intention: {str(e)}", exc_info=True): the
\* cause text and the traceback; steps are the Steps the entry holds.
ErrorEntry(cause) ==
  [message |-> <<"Error processing intention: ">> \o cause, steps |-> << >>]

\* C20: when a run is ended by a fatal error after it recorded k >= 1 Steps,
\* those Steps are not lost: the failure response returns them, or the
\* failure's log entry holds them.
C20_PartialTraceSurvivesAbort ==
  (pc = "aborted" /\ Recorded >= 1) =>
    \/ /\ AgentResponse(pc, run_result, FatalCause).has_memory
       /\ Len(AgentResponse(pc, run_result, FatalCause).memory) >= Recorded
    \/ Len(ErrorEntry(FatalCause).steps) >= Recorded

\* C21: a registry build that ends with an empty available set although at
\* least one tool was requested is a fatal initialization error: no
\* Initializer (and so no agent that can run) comes out of it.
C21_EmptyRegistryIsFatal ==
  ~(/\ setup_pc = "built"
    /\ enabled_tools # << >>
    /\ available_tools = << >>)

\* C22: at every point of every run, 0 <= step_count <= max_steps (max_steps
\* being a step budget, a natural number).
C22_StepCountInRange ==
  /\ 0 <= step_count
  /\ step_count <= max_steps

C22_Witness ==
  /\ pc = "loop_guard"
  /\ runs = 2
  /\ max_steps = MaxSteps
  /\ step_count = max_steps
  /\ calls.verificate_context = max_steps

\* C23: every completed execute_step call of a run is followed by exactly one
\* Memory append before the next verify call: whenever the loop guard is
\* tested, and whenever verify is about to be called, the Steps appended in
\* this run and the add_action calls both equal the execute_step calls made.
C23_RecordFollowsExecute ==
  /\ pc \in {"loop_guard", "verificate_context", "generate_final_output"} =>
       /\ Recorded = calls.execute_step
       /\ calls.add_action = calls.execute_step
  /\ pc = "verificate_context" =>
       calls.add_action = calls.verificate_context + 1

C23_Witness ==
  /\ pc = "loop_guard"
  /\ calls.execute_step = 2
  /\ Recorded = 2
  /\ calls.dispatched = 1
  /\ LastStep.result.success

\* The command the oracle generated is empty or only whitespace.
GeneratedCommandBlank ==
  /\ ~response.raised
  /\ response.value.form = "obj"
  /\ HasKey(response.value.data, "command")
  /\ LET c == Get(response.value.data, "command", EmptyStr)
     IN  \A i \in 1..Len(c) : IsSpace(c[i])

\* C24: when the command the oracle generated is empty or only whitespace,
\* execute_step does not call the tool's execute at all and returns a result
\* with success = false and a non-empty error.
C24_BlankCommandNotDispatched ==
  (GeneratedCommandBlank /\ calls.command_oracle = 1) =>
    /\ calls.tool_execute = 0
    /\ pc # "execute_tool_command"
    /\ ~result.success
    /\ NonEmptyText(result.error)
    /\ result.result = NoToolResult

C24_Witness ==
  /\ GeneratedCommandBlank
  /\ Get(response.value.data, "command", EmptyStr) = <<SP, SP>>
  /\ calls.command_oracle = 1
  /\ pc = "verificate_context"
  /\ LastStep.result = FailureResult(<<"Empty command generated">>)

\* The current run makes a call of f in this step.
Calls(f) == runs' = runs /\ calls'[f] = calls[f] + 1

\* C25: call ordering within a run: analyze_query is called exactly once and
\* before any generate_next_step; within each iteration the calls come in the
\* order generate_next_step, execute_step, Memory append, verify; and finalize
\* is called only after the last verify of the run (no call follows it).
C25_CallOrder ==
  [][/\ Calls("analyze_query") => calls = NoCalls
     /\ Calls("generate_next_step") =>
          /\ calls.analyze_query = 1
          /\ calls.verificate_context = calls.generate_next_step
     /\ Calls("execute_step") => calls.generate_next_step = calls.execute_step + 1
     /\ Calls("add_action") =>
          /\ calls.execute_step = calls.add_action + 1
          /\ calls.verificate_context = calls.add_action
     /\ Calls("verificate_context") =>
          calls.add_action = calls.verificate_context + 1
     /\ Calls("generate_final_output") =>
          /\ calls.analyze_query = 1
          /\ calls.generate_final_output = 0
          /\ calls.verificate_context = calls.generate_next_step
     /\ (calls.generate_final_output = 1 /\ runs' = runs) => calls' = calls]_vars

C25_Witness ==
  /\ pc = "done"
  /\ calls.analyze_query = 1
  /\ calls.generate_next_step = 2
  /\ calls.verificate_context = 2
  /\ calls.generate_final_output = 1
  /\ stopped

\* C26: within a single run at most one oracle call or tool call is
\* outstanding at any time: a call is started only after the previous one has
\* returned.
C26_OneOutstandingCall ==
  /\ Cardinality(outstanding) <= 1
  /\ outstanding # {} => (awaiting /\ outstanding = {CallAt})

C26_Witness ==
  /\ outstanding = {[at |-> "execute_tool_command", step |-> 1]}
  /\ awaiting
  /\ Recorded = 1

\* The decision run holds after generate_next_step.
Decided == Triple(context, subgoal, tool)

\* A field of a decoded object, or the empty string when it is not there.
Field(d, k) ==
  IF \E e \in d : e.key = k THEN (CHOOSE e \in d : e.key = k).val ELSE EmptyStr

Fields(d) == Triple(Field(d, "context"), Field(d, "sub_goal"), Field(d, "tool_name"))

\* The lines of a text that start with one of the prefixes.
Prefixed(text, prefixes) ==
  {i \in 1..Len(SplitLines(text)) :
     \E p \in prefixes : StartsWith(SplitLines(text)[i], p)}

\* The given answer decodes as JSON into an object.
DecodesToObject == next_step.kind = "str" /\ next_step.form = "obj"

\* C27: decision extraction follows the tier order: a dict answer has its
\* context, sub_goal and tool_name fields read directly; otherwise the text is
\* decoded as JSON into the same shape; only if that fails is the line-prefix
\* scanner used; in every tier a field that is not found is the empty string.
C27_ExtractionTiers ==
  (pc = "execute_step" /\ calls.generate_next_step = 1) =>
    IF next_step.kind = "dict" \/ DecodesToObject
    THEN Decided = Fields(next_step.data)
    ELSE /\ Decided = ScanLines(Triple(EmptyStr, EmptyStr, EmptyStr),
                                SplitLines(next_step.text))
         /\ Prefixed(next_step.text, {<<"Context:">>}) = {} => context = EmptyStr
         /\ Prefixed(next_step.text, {<<"Sub-Goal:">>, <<"Sub-goal:">>}) = {} =>
              subgoal = EmptyStr
         /\ Prefixed(next_step.text, {<<"Tool:">>, <<"Tool", SP, "Name:">>}) = {} =>
              tool = EmptyStr

C27_Witness ==
  /\ pc = "execute_step"
  /\ calls.generate_next_step = 1
  /\ DecodesToObject
  /\ Decided = Triple(Ctx, Goal, ToolA)

\* The rest of the last line of the text that starts with one of the
\* prefixes, trimmed.
RestOfLast(text, prefixes) ==
  LET i == CHOOSE j \in Prefixed(text, prefixes) :
             \A k \in Prefixed(text, prefixes) : k <= j
      line == SplitLines(text)[i]
      p == CHOOSE q \in prefixes : StartsWith(line, q)
  IN  Strip(SubSeq(line, Len(p) + 1, Len(line)))

\* The scanner sets a field from the lines that start with its prefixes.
Sets(field, text, prefixes) ==
  Prefixed(text, prefixes) # {} => field = RestOfLast(text, prefixes)

\* C28: the fallback line scanner recognises every listed prefix: a line
\* starting with "Context:" sets the context, one starting with "Sub-Goal:"
\* or "Sub-goal:" sets the subgoal, one starting with "Tool Name:" or "Tool:"
\* sets the tool name, the value being the rest of the line, trimmed.
C28_ScannerPrefixes ==
  (/\ pc = "execute_step"
   /\ calls.generate_next_step = 1
   /\ next_step.kind = "str"
   /\ next_step.form = "raw") =>
    /\ Sets(context, next_step.text, {<<"Context:">>})
    /\ Sets(subgoal, next_step.text, {<<"Sub-Goal:">>, <<"Sub-goal:">>})
    /\ Sets(tool, next_step.text, {<<"Tool:">>, <<"Tool", SP, "Name:">>})

\* The names in the available list.
Available == {available_tools[i] : i \in 1..Len(available_tools)}

\* _set_up_tools has returned.
BuildFinished == setup_pc \in {"vllm_check", "built", "AttributeError"}

\* C29: after the registry build finishes, the key set of toolbox_metadata
\* equals the set of names in available_tools: every available tool has a
\* metadata entry and metadata references no unavailable tool.
C29_MetadataMatchesAvailable ==
  BuildFinished => toolbox_metadata = Available

C29_Witness ==
  /\ setup_pc = "built"
  /\ enabled_tools = <<All>>
  /\ tools_metadata = {ClassOf(<<"alpha">>)}
  /\ tool_dirs[<<"beta">>] = "init"
  /\ toolbox_metadata = Available

\* C30: registry selection by enabled names: when enabled_tools holds the
\* wildcard "all", the available set is every candidate that instantiated and
\* gave its metadata; otherwise it is exactly those of them that were
\* requested by name.
C30_SelectionByEnabledNames ==
  BuildFinished =>
    Available =
      {ClassOf(d) : d \in {c \in ToolDirs :
                             /\ Valid(c)
                             /\ \/ InList(All, enabled_tools)
                                \/ InList(ClassOf(c), enabled_tools)}}

\* C31: the registry is read-only after construction: no step of run (planner
\* calls, executor calls, memory appends, across any number of runs) changes
\* available_tools or toolbox_metadata.
C31_RegistryReadOnly ==
  [][/\ available_tools' = available_tools
     /\ toolbox_metadata' = toolbox_metadata]_vars

C31_Witness ==
  /\ runs = 2
  /\ pc = "done"
  /\ Len(memory) = 2
  /\ ~all_available
  /\ available_tools = <<ToolA>>
  /\ toolbox_metadata = {ToolA}

\* C32: at the request boundary a fatal error is a single top-level failure
\* and never a raised exception: for any exception raised by agent
\* construction or by run the handler returns a response with success = false
\* and error set to the cause text; a response has success = true only if run
\* returned normally.
C32_FatalErrorIsFailureResponse ==
  \A r \in Requests :
    /\ http[r].status # 500
    /\ http[r].raised # "none" =>
         /\ http[r].pc = "responded"
         /\ http[r].status = 200
         /\ ~http[r].success
         /\ http[r].error = http[r].cause
    /\ http[r].success =>
         /\ http[r].pc = "responded"
         /\ http[r].raised = "none"
         /\ http[r].agent # NoAgent

C32_Witness ==
  /\ http[1].raised = "construction"
  /\ http[1].error = <<"__init__() got an unexpected keyword argument 'config_path'">>
  /\ ~http[1].success
  /\ http[2].raised = "run"
  /\ http[2].error = EngineCall(Raise(<<"timeout">>)).msg

\* C33: the success flag of a recorded Step reflects the tool's outcome:
\* whenever the dispatched tool's execute returns a result that itself reports
\* success = false, the result execute_step returns, and the Step stores, has
\* success = false.
C33_StepSuccessReflectsTool ==
  /\ (/\ pc = "add_action"
      /\ ~result.result.isNone
      /\ ~result.result.success) => ~result.success
  /\ (/\ pc = "verificate_context"
      /\ memory # << >>
      /\ ~LastStep.result.result.isNone
      /\ ~LastStep.result.result.success) => ~LastStep.result.success

\* The given answer can be decoded by no tier: it is no dict, no JSON text of
\* an object, and none of its lines starts with a field prefix.
Undecodable ==
  /\ next_step.kind = "str"
  /\ next_step.form # "obj"
  /\ Prefixed(next_step.text,
              {<<"Context:">>, <<"Sub-Goal:">>, <<"Sub-goal:">>, <<"Tool:">>,
               <<"Tool", SP, "Name:">>}) = {}

\* C34: extract_context_subgoal_and_tool is total: for every response (dict,
\* JSON text of a non-object, malformed text, empty text) it returns a triple
\* and never raises, so the run goes on to execute_step; an undecodable
\* response yields three empty strings, which the loop treats as an invalid
\* tool: execute_step answers that the tool is not available, without dispatch.
C34_ExtractionTotal ==
  /\ pc # "aborted"
  /\ calls.generate_next_step = 1 =>
       /\ pc \in {"execute_step", "add_action", "verificate_context"}
       /\ Decided \in [context : Seq(STRING), subgoal : Seq(STRING),
                       tool : Seq(STRING)]
  /\ (calls.generate_next_step = 1 /\ Undecodable) =>
       /\ Decided = Triple(EmptyStr, EmptyStr, EmptyStr)
       /\ calls.dispatched = 0
       /\ pc \in {"add_action", "verificate_context"} =>
            result = NotAvailableResult(EmptyStr)

C34_Witness ==
  /\ next_step = JsonOther
  /\ Undecodable
  /\ pc = "verificate_context"
  /\ LastStep.tool_name = EmptyStr
  /\ LastStep.result = NotAvailableResult(EmptyStr)

\* C35: within one run the ordinal indices of the recorded Steps are distinct
\* and strictly increasing in append order: the Step appended in the iteration
\* that started with step_count = i carries index i (the j-th Step of the run
\* carries j - 1), and no two appends of a run use the same index.
C35_StepIndicesIncrease ==
  /\ \A j \in 1..Recorded : memory[mem_at_start + j].step_count = j - 1
  /\ \A j, k \in 1..Recorded :
       j < k => memory[mem_at_start + j].step_count
                  < memory[mem_at_start + k].step_count
  /\ pc = "verificate_context" => LastStep.step_count = step_count

C35_Witness ==
  /\ runs = 2
  /\ mem_at_start = 1
  /\ Recorded = 2
  /\ memory[2].step_count = 0
  /\ memory[3].step_count = 1
  /\ pc = "done"

\* The requests whose get_agent call ended in a constructor that raised.
ConstructionFailed == {r \in Requests : http[r].raised = "construction"}

\* C36: get_agent constructs at most one IntentusAgent per process: after the
\* first successful construction every later call returns that same instance;
\* if construction raises, the global stays unset and the next call attempts
\* construction again.
C36_OneAgentPerProcess ==
  /\ constructed <= 1
  /\ agent = NoAgent <=> constructed = 0
  /\ \A r \in Requests : http[r].agent # NoAgent => http[r].agent = agent
  /\ attempts = Cardinality(ConstructionFailed) + constructed

C36_Witness ==
  /\ http[1].raised = "construction"
  /\ http[2].raised = "construction"
  /\ attempts = 2
  /\ agent = NoAgent

\* The request was let through by verify_api_key.
Accepted(r) == http[r].pc \in {"get_agent", "run", "running", "responded"}

\* C37: verify_api_key accepts a request iff ORCHESTRATOR_API_KEY is unset or
\* empty or the presented bearer credential equals it; when the key is set
\* and the credential differs the request is rejected with 401 before the
\* agent is created or run.
C37_ApiKeyGate ==
  \A r \in Requests :
    /\ (Accepted(r) \/ http[r].pc = "rejected") =>
         (Accepted(r) <=> \/ expected_api_key \in {Unset, ""}
                          \/ http[r].credentials = expected_api_key)
    /\ http[r].pc = "rejected" =>
         /\ http[r].status = 401
         /\ http[r].agent = NoAgent
         /\ http[r].raised = "none"
         /\ ~http[r].success
    /\ (\A q \in Requests : http[q].pc \in {"idle", "verify_api_key", "rejected"}) =>
         (attempts = 0 /\ agent = NoAgent)

C37_Witness ==
  /\ expected_api_key = "k1"
  /\ http[1].credentials = "k2"
  /\ http[1].pc = "rejected"
  /\ http[1].status = 401
  /\ http[2].credentials = "k1"
  /\ http[2].pc = "responded"

=============================================================================
